---- MODULE Spec2Model ----
(***************************************************************************)
(* Duplicate-detection pipeline of ai-bug-deduplication: the quality gate, *)
(* the hybrid similarity search, the tiered decision of                    *)
(* DuplicateDetector.process_incoming_bug, and the QA override endpoints.  *)
(*                                                                         *)
(* Text is modelled as a sequence of one-character strings so that strip,  *)
(* lower, len and split act as they do in Python.  Scores are exact        *)
(* rationals [n, d] (the code uses binary floating point; rounding is not  *)
(* modelled).  The sentence-transformer and the FAISS inner product are    *)
(* external: an embedding is an opaque unit vector and the inner product   *)
(* of two of them is given by a fixed table.                               *)
(***************************************************************************)
EXTENDS Integers, Sequences, FiniteSets, TLC

VARIABLES bugs, duplicate_history, low_quality_queue, audit_log,
          index, bug_ids, result, calls,
          disk, threads, running, http, breaker

\* The snapshot files, the threads of the process, and whether the process
\* is up.
store_vars == <<disk, threads, running, http, breaker>>

vars == <<bugs, duplicate_history, low_quality_queue, audit_log,
          index, bug_ids, result, calls, disk, threads, running, http,
          breaker>>

(***************************************************************************)
(* Bounds of the model.                                                    *)
(***************************************************************************)
MaxBugs == 2

MaxEvents == 3

(***************************************************************************)
(* Python values.                                                          *)
(***************************************************************************)
\* None, as a value no text can equal.
None == <<"<None>">>

\* The unset integer / float column (bug.parent_bug_id, bug.match_score).
NoId == 0

NoScore == [n |-> -1, d |-> 1]

\* Python truthiness of an optional string: neither None nor ''.
Truthy(s) == s # None /\ s # <<>>

\* bug_data.get(key, '') for the keys the model carries.
GetOrEmpty(s) == IF s = None THEN <<>> ELSE s

UpperChars == <<"A","B","C","D","E","F","G","H","I","J","K","L","M",
                "N","O","P","Q","R","S","T","U","V","W","X","Y","Z">>

LowerChars == <<"a","b","c","d","e","f","g","h","i","j","k","l","m",
                "n","o","p","q","r","s","t","u","v","w","x","y","z">>

DigitChars == {"0","1","2","3","4","5","6","7","8","9"}

SpaceChars == {" ", "\n", "\t"}

IsUpperChar(c) == \E i \in 1..Len(UpperChars) : UpperChars[i] = c

IsLowerChar(c) == \E i \in 1..Len(LowerChars) : LowerChars[i] = c

IsAlnum(c) == IsUpperChar(c) \/ IsLowerChar(c) \/ c \in DigitChars

IsSpace(c) == c \in SpaceChars

LowerChar(c) ==
  IF IsUpperChar(c)
  THEN LowerChars[CHOOSE i \in 1..Len(UpperChars) : UpperChars[i] = c]
  ELSE c

UpperChar(c) ==
  IF IsLowerChar(c)
  THEN UpperChars[CHOOSE i \in 1..Len(LowerChars) : LowerChars[i] = c]
  ELSE c

\* str.lower() and str.upper()
Lower(s) == [i \in 1..Len(s) |-> LowerChar(s[i])]

Upper(s) == [i \in 1..Len(s) |-> UpperChar(s[i])]

RECURSIVE LStrip(_)
LStrip(s) == IF s # <<>> /\ IsSpace(Head(s)) THEN LStrip(Tail(s)) ELSE s

RECURSIVE RStrip(_)
RStrip(s) ==
  IF s # <<>> /\ IsSpace(s[Len(s)]) THEN RStrip(SubSeq(s, 1, Len(s) - 1)) ELSE s

\* str.strip()
Strip(s) == RStrip(LStrip(s))

\* str.split(): the maximal runs of non-whitespace characters.
RECURSIVE SplitWords(_, _)
SplitWords(s, cur) ==
  IF s = <<>>
  THEN IF cur = <<>> THEN <<>> ELSE <<cur>>
  ELSE IF IsSpace(Head(s))
       THEN (IF cur = <<>> THEN <<>> ELSE <<cur>>) \o SplitWords(Tail(s), <<>>)
       ELSE SplitWords(Tail(s), Append(cur, Head(s)))

Split(s) == SplitWords(s, <<>>)

\* str.split(sep) for a one-character separator: empty fields are kept.
RECURSIVE SplitOn(_, _, _)
SplitOn(s, sep, cur) ==
  IF s = <<>>
  THEN <<cur>>
  ELSE IF Head(s) = sep
       THEN <<cur>> \o SplitOn(Tail(s), sep, <<>>)
       ELSE SplitOn(Tail(s), sep, Append(cur, Head(s)))

\* str.isupper(): at least one cased character and no lowercase one.
IsUpperText(s) ==
  /\ \E i \in 1..Len(s) : IsUpperChar(s[i])
  /\ \A i \in 1..Len(s) : ~IsLowerChar(s[i])

Range(s) == {s[i] : i \in 1..Len(s)}

(***************************************************************************)
(* Exact rationals for the scores.                                         *)
(***************************************************************************)
RECURSIVE Gcd(_, _)
Gcd(a, b) == IF b = 0 THEN a ELSE Gcd(b, a % b)

Abs(x) == IF x < 0 THEN -x ELSE x

Rat(n, d) ==
  LET g == Gcd(Abs(n), d)
  IN  IF n = 0 THEN [n |-> 0, d |-> 1] ELSE [n |-> n \div g, d |-> d \div g]

RAdd(a, b) == Rat(a.n * b.d + b.n * a.d, a.d * b.d)

RSub(a, b) == Rat(a.n * b.d - b.n * a.d, a.d * b.d)

RMul(a, b) == Rat(a.n * b.n, a.d * b.d)

RGeq(a, b) == a.n * b.d >= b.n * a.d

RZero == [n |-> 0, d |-> 1]

RMax(a, b) == IF RGeq(a, b) THEN a ELSE b

(***************************************************************************)
(* QualityChecker (app/services/quality_checker.py), configured as         *)
(* app/config.py configures it.                                            *)
(***************************************************************************)
min_description_length == 50

require_repro_steps == TRUE

require_logs == FALSE

MinTitleLength == 10

MinReproLength == 20

\* The texts the patterns of _is_generic_title match in full.  re.match of
\* r'^crashes?$' accepts "crashe" and "crashes": the ? binds to the last s.
GenericTitles ==
  { <<"b","u","g">>,
    <<"e","r","r","o","r">>,
    <<"i","s","s","u","e">>,
    <<"p","r","o","b","l","e","m">>,
    <<"h","e","l","p">>,
    <<"t","e","s","t">>,
    <<"b","r","o","k","e","n">>,
    <<"n","o","t"," ","w","o","r","k","i","n","g">>,
    <<"d","o","e","s","n","'","t"," ","w","o","r","k">>,
    <<"c","r","a","s","h","e">>,
    <<"c","r","a","s","h","e","s">> }

_is_generic_title(title) == Strip(Lower(title)) \in GenericTitles

SpecialCount(text) ==
  Cardinality({i \in 1..Len(text) : ~IsAlnum(text[i]) /\ ~IsSpace(text[i])})

\* Called on a stripped, non-empty description only.
_is_low_quality_text(text) ==
  LET words == Split(Lower(text))
  IN  \/ Len(words) > 0 /\ Cardinality(Range(words)) * 10 < 3 * Len(words)
      \/ Len(text) > 20 /\ IsUpperText(text)
      \/ SpecialCount(text) * 10 > 3 * Len(text)

TitleIssues(d) ==
  LET title == Strip(GetOrEmpty(d.title))
  IN  IF title = <<>> THEN <<"missing_title">>
      ELSE IF Len(title) < MinTitleLength THEN <<"title_too_short">>
      ELSE IF _is_generic_title(title) THEN <<"generic_title">>
      ELSE <<>>

DescriptionIssues(d) ==
  LET description == Strip(GetOrEmpty(d.description))
  IN  IF description = <<>> THEN <<"missing_description">>
      ELSE IF Len(description) < min_description_length
           THEN <<"description_too_short">>
      ELSE IF _is_low_quality_text(description)
           THEN <<"low_quality_description">>
      ELSE <<>>

ReproIssues(d) ==
  LET repro_steps == Strip(GetOrEmpty(d.repro_steps))
  IN  IF ~require_repro_steps THEN <<>>
      ELSE IF repro_steps = <<>> THEN <<"missing_repro_steps">>
      ELSE IF Len(repro_steps) < MinReproLength
           THEN <<"repro_steps_too_short">>
      ELSE <<>>

LogsIssues(d) ==
  IF require_logs /\ Strip(GetOrEmpty(d.logs)) = <<>>
  THEN <<"missing_logs">> ELSE <<>>

MetadataIssues(d) ==
     (IF ~Truthy(d.device) THEN <<"missing_device_info">> ELSE <<>>)
  \o (IF ~Truthy(d.build_version) THEN <<"missing_build_version">> ELSE <<>>)
  \o (IF ~Truthy(d.region) THEN <<"missing_region">> ELSE <<>>)

\* The issue list of check_quality, in the order the code appends.
QualityIssues(d) ==
  TitleIssues(d) \o DescriptionIssues(d) \o ReproIssues(d) \o LogsIssues(d)
    \o MetadataIssues(d)

\* A gate that rejects only a missing title.
is_valid_if_titled(issues) == ~("missing_title" \in Range(issues))

\* is_valid = len(issues) == 0
is_valid(issues) == Len(issues) = 0

check_quality(d) ==
  LET issues == QualityIssues(d)
  IN  [is_valid |-> is_valid(issues), issues |-> issues]

(***************************************************************************)
(* The submissions the model feeds to the pipeline.                        *)
(***************************************************************************)
\* "Login page crashes"
TitleLogin == <<"L","o","g","i","n"," ","p","a","g","e"," ","c","r","a","s","h","e","s">>

\* "Sign-in screen crashes"
TitleSignIn == <<"S","i","g","n","-","i","n"," ","s","c","r","e","e","n"," ","c","r","a","s","h","e","s">>

\* "Export to PDF hangs"
TitleExport == <<"E","x","p","o","r","t"," ","t","o"," ","P","D","F"," ","h","a","n","g","s">>

\* "bug"
TitleBug == <<"b","u","g">>

\* "The login page crashes right after the user taps the sign in button."
DescLong == <<"T","h","e"," ","l","o","g","i","n"," ","p","a","g","e"," ","c","r","a","s","h","e","s"," ","r","i","g","h","t"," ","a","f","t","e","r"," ","t","h","e"," ","u","s","e","r"," ","t","a","p","s"," ","t","h","e"," ","s","i","g","n"," ","i","n"," ","b","u","t","t","o","n",".">>

\* "it broke"
DescShort == <<"i","t"," ","b","r","o","k","e">>

\* "1. Open the app 2. Tap sign in"
Repro == <<"1","."," ","O","p","e","n"," ","t","h","e"," ","a","p","p"," ","2","."," ","T","a","p"," ","s","i","g","n"," ","i","n">>

Submission(title, description, repro_steps, device, build_version, region, os_version, severity) ==
  [title |-> title, description |-> description, repro_steps |-> repro_steps,
   logs |-> None, device |-> device, build_version |-> build_version,
   region |-> region, os_version |-> os_version, severity |-> severity]

SubA ==
  Submission(TitleLogin, DescLong, Repro, <<"i","P","h","o","n","e">>,
             <<"2",".","0",".","0">>, <<"U","S">>, <<"1","7">>,
             <<"m","a","j","o","r">>)

\* The text of SubA from another region and the next patch build.
SubB ==
  Submission(TitleLogin, DescLong, Repro, <<"I","P","H","O","N","E">>,
             <<"2",".","0",".","1">>, <<"E","U">>, <<"1","7">>,
             <<"m","a","j","o","r">>)

SubC ==
  Submission(TitleSignIn, DescLong, Repro, <<"i","P","h","o","n","e">>,
             <<"2",".","0",".","0">>, <<"U","S">>, <<"1","7">>,
             <<"m","i","n","o","r">>)

SubD ==
  Submission(TitleSignIn, DescLong, Repro, <<"P","i","x","e","l">>,
             <<"2",".","0",".","1">>, <<"U","S">>, <<"1","4">>,
             <<"m","i","n","o","r">>)

SubE ==
  Submission(TitleExport, DescLong, Repro, <<"P","i","x","e","l">>,
             <<"3",".","1",".","0">>, <<"E","U">>, None, None)

\* {title: "bug", description: "it broke"}
SubLow == Submission(TitleBug, DescShort, None, None, None, None, None, None)

\* Good text, no device.
SubNoDevice ==
  Submission(TitleLogin, DescLong, Repro, None, <<"2",".","0",".","0">>,
             <<"U","S">>, None, None)

Submissions == {SubA, SubB, SubC, SubD, SubE, SubLow, SubNoDevice}

\* The JSON bodies sent to POST /api/bugs/.
Bodies == {SubA, SubLow}

\* create_bug's bug_data: title and description are copied, severity defaults
\* to "minor", the steps go under the key steps_to_reproduce, and device,
\* build_version, region and os_version are not copied at all, so that the
\* detector's bug_data.get finds none of them.
ApiBugData(data) ==
  Submission(data.title, data.description, None, None, None, None, None,
             IF Truthy(data.severity) THEN data.severity
             ELSE <<"m","i","n","o","r">>)

\* The submissions on which the pure functions are tabulated.
Tabulated == Submissions \cup {ApiBugData(data) : data \in Bodies}

(***************************************************************************)
(* EmbeddingService and the inner product of the FAISS index.              *)
(***************************************************************************)
ZeroVector == "zero"

NoEmbedding == "none"

\* SentenceTransformer.encode: a deterministic map from a text to a unit
\* vector.  The stand-in separates texts by their first character.
ModelEncode(text) ==
  IF Head(text) = "L" THEN "va"
  ELSE IF Head(text) = "S" THEN "vb"
  ELSE "vc"

generate_embedding(text) ==
  IF text = <<>> \/ Strip(text) = <<>> THEN ZeroVector ELSE ModelEncode(text)

\* _normalize_vectors: a unit vector and the zero vector are left as they are.
_normalize_vectors(v) == v

\* Inner product of two normalised vectors, in twentieths.
InnerProduct(a, b) ==
  IF a = ZeroVector \/ b = ZeroVector THEN 0
  ELSE IF a = b THEN 20
  ELSE IF {a, b} = {"va", "vb"} THEN 17
  ELSE IF {a, b} = {"va", "vc"} THEN 10
  ELSE 8

(***************************************************************************)
(* VectorStore (app/utils/vector_store.py): index holds the vectors,       *)
(* bug_ids maps each position to a bug id.                                 *)
(***************************************************************************)
Min(a, b) == IF a <= b THEN a ELSE b

Take(s, n) == SubSeq(s, 1, Min(n, Len(s)))

\* Insert position p into a list of positions ordered by descending score;
\* equal scores keep the lower position first.
RECURSIVE InsertByScore(_, _, _, _)
InsertByScore(p, sorted, idx, q) ==
  IF sorted = <<>> THEN <<p>>
  ELSE IF InnerProduct(idx[Head(sorted)], q) >= InnerProduct(idx[p], q)
       THEN <<Head(sorted)>> \o InsertByScore(p, Tail(sorted), idx, q)
       ELSE <<p>> \o sorted

RECURSIVE RankPositions(_, _, _)
RankPositions(n, idx, q) ==
  IF n = 0 THEN <<>>
  ELSE InsertByScore(n, RankPositions(n - 1, idx, q), idx, q)

\* faiss IndexFlatIP.search: the search_k best positions with their scores.
IndexSearch(idx, q, search_k) ==
  LET ranked == Take(RankPositions(Len(idx), idx, q), search_k)
  IN  [i \in 1..Len(ranked) |->
         [idx |-> ranked[i], distance |-> InnerProduct(idx[ranked[i]], q)]]

RECURSIVE SelectSeq2(_, _)
SelectSeq2(s, ids) ==
  IF s = <<>> THEN <<>>
  ELSE (IF Head(s).idx <= Len(ids)
        THEN <<[bug_id |-> ids[Head(s).idx], score |-> Head(s).distance]>>
        ELSE <<>>) \o SelectSeq2(Tail(s), ids)

\* VectorStore.search
search(idx, ids, query_embedding, k) ==
  IF Len(idx) = 0 THEN <<>>
  ELSE LET normalized_query == _normalize_vectors(query_embedding)
           search_k == Min(k + 1, Len(idx))
           found == IndexSearch(idx, normalized_query, search_k)
       IN  Take(SelectSeq2(found, ids), k)

\* VectorStore.add_vectors for one vector: the new [index, bug_ids].
add_vectors(idx, ids, embedding, bug_id) ==
  [index |-> Append(idx, _normalize_vectors(embedding)),
   bug_ids |-> Append(ids, bug_id)]

(***************************************************************************)
(* SimilarityEngine (app/services/similarity_engine.py).                   *)
(***************************************************************************)
similarity_threshold == 85

low_confidence_threshold == 70

TopK == 10

Hundredths(t) == Rat(t, 100)

RECURSIVE JoinWithSpace(_)
JoinWithSpace(parts) ==
  IF parts = <<>> THEN <<>>
  ELSE IF Len(parts) = 1 THEN Head(parts)
  ELSE Head(parts) \o <<" ">> \o JoinWithSpace(Tail(parts))

Labelled(label, value) == IF Truthy(value) THEN label \o value ELSE <<>>

\* The six parts of the text of a submission or of a Bug, in order.
TextParts(r) ==
  << GetOrEmpty(r.title), GetOrEmpty(r.description), GetOrEmpty(r.repro_steps),
     Labelled(<<"D","e","v","i","c","e",":"," ">>, r.device),
     Labelled(<<"B","u","i","l","d",":"," ">>, r.build_version),
     Labelled(<<"R","e","g","i","o","n",":"," ">>, r.region) >>

\* ' '.join(filter(None, parts))
\* A text assembly that leaves the labelled metadata parts out.
_build_text_unlabelled(bug_data) ==
  JoinWithSpace(SelectSeq(SubSeq(TextParts(bug_data), 1, 3),
                          LAMBDA part : part # <<>>))

_build_text_for_matching(bug_data) ==
  JoinWithSpace(SelectSeq(TextParts(bug_data), LAMBDA part : part # <<>>))

\* Bug.get_text_for_embedding: the text assembly of the specification.
get_text_for_embedding(bug) ==
  JoinWithSpace(SelectSeq(TextParts(bug), LAMBDA part : part # <<>>))

_is_similar_build(build1, build2) ==
  LET parts1 == SplitOn(build1, ".", <<>>)
      parts2 == SplitOn(build2, ".", <<>>)
  IN  /\ Len(parts1) >= 2
      /\ Len(parts2) >= 2
      /\ parts1[1] = parts2[1]
      /\ parts1[2] = parts2[2]

\* The weight a field adds to score and to total_weight, in twentieths.
FieldWeights(incoming_data, existing_bug) ==
  LET both(a, b) == Truthy(a) /\ Truthy(b)
      device ==
        IF both(incoming_data.device, existing_bug.device)
        THEN [s |-> IF Lower(incoming_data.device) = Lower(existing_bug.device)
                    THEN 4 ELSE 0, w |-> 4]
        ELSE [s |-> 0, w |-> 0]
      build ==
        IF both(incoming_data.build_version, existing_bug.build_version)
        THEN [s |-> IF incoming_data.build_version = existing_bug.build_version
                    THEN 6
                    ELSE IF _is_similar_build(incoming_data.build_version,
                                              existing_bug.build_version)
                         THEN 3 ELSE 0,
              w |-> 6]
        ELSE [s |-> 0, w |-> 0]
      region ==
        IF both(incoming_data.region, existing_bug.region)
        THEN [s |-> IF incoming_data.region = existing_bug.region
                    THEN 4 ELSE 0, w |-> 4]
        ELSE [s |-> 0, w |-> 0]
      os ==
        IF both(incoming_data.os_version, existing_bug.os_version)
        THEN [s |-> IF incoming_data.os_version = existing_bug.os_version
                    THEN 3 ELSE 0, w |-> 3]
        ELSE [s |-> 0, w |-> 0]
      severity ==
        IF both(incoming_data.severity, existing_bug.severity)
        THEN [s |-> IF incoming_data.severity = existing_bug.severity
                    THEN 3 ELSE 0, w |-> 3]
        ELSE [s |-> 0, w |-> 0]
  IN  [score |-> device.s + build.s + region.s + os.s + severity.s,
       total_weight |-> device.w + build.w + region.w + os.w + severity.w]

_compute_metadata_similarity(incoming_data, existing_bug) ==
  LET fw == FieldWeights(incoming_data, existing_bug)
  IN  IF fw.total_weight > 0 THEN Rat(fw.score, fw.total_weight) ELSE RZero

\* vector_weight = 0.7, metadata_weight = 0.3
_compute_hybrid_score(vector_score, metadata_score) ==
  RAdd(RMul(vector_score, Rat(7, 10)), RMul(metadata_score, Rat(3, 10)))

_is_cross_region(incoming_data, existing_bug) ==
  LET incoming_region == Upper(GetOrEmpty(incoming_data.region))
      existing_region == Upper(GetOrEmpty(existing_bug.region))
  IN  IF incoming_region = <<>> \/ existing_region = <<>> THEN FALSE
      ELSE incoming_region # existing_region

\* penalty = 0.05
_normalize_cross_region_score(score) == RMax(RZero, RSub(score, Rat(1, 20)))

\* The hybrid score of one vector candidate against its Bug row.
HybridOf(incoming_data, bug, vector_score) ==
  LET metadata_score == _compute_metadata_similarity(incoming_data, bug)
      hybrid == _compute_hybrid_score(vector_score, metadata_score)
  IN  IF _is_cross_region(incoming_data, bug)
      THEN _normalize_cross_region_score(hybrid)
      ELSE hybrid

\* A status filter that drops Resolved bugs only.
ExcludedByStatus_resolved_only(bug) ==
  bug.status = "Resolved" /\ bug.classification_tag # "Recurring"

\* if bug.status in ['Resolved', 'Closed'] and
\*    bug.classification_tag != 'Recurring': continue
ExcludedByStatus(bug) ==
  bug.status \in {"Resolved", "Closed"} /\ bug.classification_tag # "Recurring"

\* hybrid_score >= threshold * 0.8
PreFilter(hybrid_score, threshold) ==
  RGeq(hybrid_score, RMul(Hundredths(threshold), Rat(8, 10)))

\* The loop of find_similar_bugs over the vector candidates.
RECURSIVE CollectCandidates(_, _, _, _)
CollectCandidates(vector_candidates, incoming_data, rows, threshold) ==
  IF vector_candidates = <<>> THEN <<>>
  ELSE LET c == Head(vector_candidates)
           rest == CollectCandidates(Tail(vector_candidates), incoming_data,
                                     rows, threshold)
       IN  IF c.bug_id \notin 1..Len(rows) THEN rest
           ELSE LET bug == rows[c.bug_id]
                    vector_score == Rat(c.score, 20)
                    hybrid_score == HybridOf(incoming_data, bug, vector_score)
                IN  IF ExcludedByStatus(bug) THEN rest
                    ELSE IF PreFilter(hybrid_score, threshold)
                    THEN << [bug_id |-> bug.id,
                             vector_score |-> vector_score,
                             metadata_score |->
                               _compute_metadata_similarity(incoming_data, bug),
                             hybrid_score |-> hybrid_score,
                             is_cross_region |->
                               _is_cross_region(incoming_data, bug)] >> \o rest
                    ELSE rest

\* candidates.sort(key=hybrid_score, reverse=True): stable.
RECURSIVE InsertCandidate(_, _)
InsertCandidate(c, sorted) ==
  IF sorted = <<>> THEN <<c>>
  ELSE IF RGeq(Head(sorted).hybrid_score, c.hybrid_score)
       THEN <<Head(sorted)>> \o InsertCandidate(c, Tail(sorted))
       ELSE <<c>> \o sorted

RECURSIVE SortCandidates(_)
SortCandidates(cands) ==
  IF cands = <<>> THEN <<>>
  ELSE InsertCandidate(cands[Len(cands)],
                       SortCandidates(SubSeq(cands, 1, Len(cands) - 1)))

\* _build_text_for_matching is pure: its values on the submissions of the
\* model are tabulated once.
MatchingTextOf ==
  [bug_data \in Tabulated |-> _build_text_for_matching(bug_data)]

\* find_similar_bugs against the given Bug rows and vector store.
find_similar_bugs(incoming_bug_data, threshold, top_k, rows, idx, ids) ==
  LET text == MatchingTextOf[incoming_bug_data]
      embedding == generate_embedding(text)
      vector_candidates == search(idx, ids, embedding, top_k * 2)
      candidates == SortCandidates(
                      CollectCandidates(vector_candidates, incoming_bug_data,
                                        rows, threshold))
  IN  SelectSeq(Take(candidates, top_k),
                LAMBDA c : RGeq(c.hybrid_score, Hundredths(threshold)))

(***************************************************************************)
(* Rows of the persistence layer, as the services construct them.          *)
(***************************************************************************)
NoTag == "None"

\* DuplicateDetector._create_bug_from_data, with the id the flush assigns.
_create_bug_from_data(bug_data, id) ==
  [id |-> id,
   title |-> bug_data.title, description |-> bug_data.description,
   repro_steps |-> bug_data.repro_steps, logs |-> bug_data.logs,
   severity |-> bug_data.severity, device |-> bug_data.device,
   os_version |-> bug_data.os_version,
   build_version |-> bug_data.build_version, region |-> bug_data.region,
   status |-> "New",
   parent_bug_id |-> NoId, match_score |-> NoScore,
   classification_tag |-> NoTag, embedding |-> NoEmbedding]

\* A history row that never records a block.
History_unblocked(id, duplicate_bug_id, parent_bug_id, match_score, bug_data, was_blocked) ==
  [id |-> id, duplicate_bug_id |-> duplicate_bug_id,
   parent_bug_id |-> parent_bug_id, match_score |-> match_score,
   match_method |-> "hybrid", submission_data |-> bug_data,
   was_blocked |-> FALSE]

\* A history row that never names the candidate Bug.
History_no_candidate(id, duplicate_bug_id, parent_bug_id, match_score, bug_data, was_blocked) ==
  [id |-> id, duplicate_bug_id |-> NoId,
   parent_bug_id |-> parent_bug_id, match_score |-> match_score,
   match_method |-> "hybrid", submission_data |-> bug_data,
   was_blocked |-> was_blocked]

History(id, duplicate_bug_id, parent_bug_id, match_score, bug_data, was_blocked) ==
  [id |-> id, duplicate_bug_id |-> duplicate_bug_id,
   parent_bug_id |-> parent_bug_id, match_score |-> match_score,
   match_method |-> "hybrid", submission_data |-> bug_data,
   was_blocked |-> was_blocked]

\* An audit row that records a blocked duplicate as a detected one.
Audit_detected(event_type, bug_id, parent_bug_id, low_quality_id) ==
  [event_type |-> IF event_type = "duplicate_blocked"
                  THEN "duplicate_detected" ELSE event_type,
   bug_id |-> bug_id, parent_bug_id |-> parent_bug_id,
   low_quality_id |-> low_quality_id]

Audit(event_type, bug_id, parent_bug_id, low_quality_id) ==
  [event_type |-> event_type, bug_id |-> bug_id,
   parent_bug_id |-> parent_bug_id, low_quality_id |-> low_quality_id]

\* What a handler returned: the detector's (bug, action, metadata) tuple or
\* the HTTP status of a QA endpoint.
Result(op, status, action, bug_id, parent_bug_id, match_score, low_quality_id, issues) ==
  [op |-> op, status |-> status, action |-> action, bug_id |-> bug_id,
   parent_bug_id |-> parent_bug_id, match_score |-> match_score,
   low_quality_id |-> low_quality_id, issues |-> issues]

\* What the last handler call was given and which collaborators it invoked:
\* the texts passed to generate_embedding, the number of vector_store.search
\* calls, and the list find_similar_bugs returned.
Calls(op, request, embed, searches, similar) ==
  [op |-> op, request |-> request, embed |-> embed, searches |-> searches,
   similar |-> similar]

\* The request threads of the web process and the thread of the scheduled
\* task, all working on the one VectorStore of the process.  Both request
\* threads ingest; the model lets one of them also search.
Workers == {"w1", "w2"}

Searchers == {"w2"}

Task == "task"

Threads == Workers \cup {Task}

\* A thread between calls.  op names the call it is in; vectors and ids
\* are the arguments of add_vectors, query, found and results the locals of
\* search; overlap records that a search began while a rebuild was replacing
\* a non-empty index by a non-empty one, old_total the size of the index a
\* rebuild found.
IdleThread ==
  [pc |-> "idle", op |-> "none", vectors |-> <<>>, ids |-> <<>>,
   query |-> NoEmbedding, search_k |-> 0, found |-> <<>>, results |-> <<>>,
   overlap |-> FALSE, old_total |-> 0]

\* A file that does not exist.
NoFile == [gen |-> 0, data |-> <<>>]

\* No request is inside the API layer.
NoRequest ==
  [pc |-> "idle", handler |-> "none", data |-> <<>>, bug_id |-> NoId,
   runs |-> 0, status |-> 0]

\* What a call through the breaker did: whether the wrapped function was
\* invoked, the state it ran in, how it ended and what the caller saw raised.
Called(invoked, ran_in, outcome, raised) ==
  [invoked |-> invoked, ran_in |-> ran_in, outcome |-> outcome,
   raised |-> raised]

\* No CircuitBreaker is constructed yet.  last_failure_time is <<>> for
\* None and <<t>> for a time; clock is time.time().
NoBreaker ==
  [state |-> "none", failure_threshold |-> 0, recovery_timeout |-> 0,
   failure_count |-> 0, last_failure_time |-> <<>>, clock |-> 0,
   last |-> Called(FALSE, "none", "none", "none")]

Init ==
  /\ http = NoRequest
  /\ breaker = NoBreaker
  /\ disk = [index_file |-> NoFile, mapping_file |-> NoFile, saves |-> 0]
  /\ threads = [t \in Threads |-> IdleThread]
  /\ running = TRUE
  /\ bugs = <<>>
  /\ duplicate_history = <<>>
  /\ low_quality_queue = <<>>
  /\ audit_log = <<>>
  /\ index = <<>>
  /\ bug_ids = <<>>
  /\ result = Result("init", 0, "", NoId, NoId, NoScore, NoId, <<>>)
  /\ calls = Calls("init", <<>>, <<>>, 0, <<>>)

(***************************************************************************)
(* DuplicateDetector (app/services/duplicate_detector.py).                 *)
(***************************************************************************)
_handle_low_quality(bug_data, quality_issues) ==
  LET id == Len(low_quality_queue) + 1
      low_quality_entry ==
        [id |-> id,
         title |-> IF bug_data.title = None
                   THEN <<"U","n","t","i","t","l","e","d">> ELSE bug_data.title,
         description |-> bug_data.description,
         repro_steps |-> bug_data.repro_steps, logs |-> bug_data.logs,
         device |-> bug_data.device, build_version |-> bug_data.build_version,
         region |-> bug_data.region, quality_issues |-> quality_issues,
         status |-> "Pending", created_bug_id |-> NoId]
  IN  /\ low_quality_queue' = Append(low_quality_queue, low_quality_entry)
      \* low_quality_entry.id is read before any flush: it is still None
      /\ audit_log' = Append(audit_log,
                             Audit("low_quality_flagged", NoId, NoId, NoId))
      /\ UNCHANGED <<bugs, duplicate_history, index, bug_ids>>
      /\ result' = Result("process", 0, "low_quality", NoId, NoId, NoScore, id,
                          quality_issues)
      /\ calls' = Calls("process", bug_data, <<>>, 0, <<>>)

_handle_duplicate(bug_data, match, blocked, trace) ==
  LET parent_bug == bugs[match.bug_id]
      match_score == match.hybrid_score
  IN  IF blocked
      THEN /\ duplicate_history' =
                Append(duplicate_history,
                       History(Len(duplicate_history) + 1, NoId, parent_bug.id,
                               match_score, bug_data, TRUE))
           /\ audit_log' = Append(audit_log,
                                  Audit("duplicate_blocked", NoId,
                                        parent_bug.id, NoId))
           /\ UNCHANGED <<bugs, low_quality_queue, index, bug_ids>>
           /\ result' = Result("process", 0, "blocked_duplicate", NoId,
                               parent_bug.id, match_score, NoId, <<>>)
           /\ calls' = trace
      ELSE LET bug == [_create_bug_from_data(bug_data, Len(bugs) + 1)
                         EXCEPT !.parent_bug_id = parent_bug.id,
                                !.match_score = match_score,
                                !.classification_tag = "Duplicate"]
           IN  /\ Len(bugs) < MaxBugs
               /\ bugs' = Append(bugs, bug)
               /\ duplicate_history' =
                    Append(duplicate_history,
                           History(Len(duplicate_history) + 1, bug.id,
                                   parent_bug.id, match_score, bug_data, FALSE))
               /\ audit_log' = Append(audit_log,
                                      Audit("duplicate_detected", bug.id,
                                            parent_bug.id, NoId))
               /\ UNCHANGED <<low_quality_queue, index, bug_ids>>
               /\ result' = Result("process", 0, "flagged_for_review", bug.id,
                                   parent_bug.id, match_score, NoId, <<>>)
               /\ calls' = trace

_create_new_bug(bug_data, trace) ==
  LET bug == _create_bug_from_data(bug_data, Len(bugs) + 1)
      text == get_text_for_embedding(bug)
      embedding == generate_embedding(text)
      store == add_vectors(index, bug_ids, embedding, bug.id)
  IN  /\ Len(bugs) < MaxBugs
      /\ bugs' = Append(bugs, [bug EXCEPT !.embedding = embedding])
      /\ index' = store.index
      /\ bug_ids' = store.bug_ids
      /\ audit_log' = Append(audit_log, Audit("bug_created", bug.id, NoId, NoId))
      /\ UNCHANGED <<duplicate_history, low_quality_queue>>
      /\ result' = Result("process", 0, "created", bug.id, NoId, NoScore, NoId,
                          <<>>)
      /\ calls' = [trace EXCEPT !.embed = Append(@, text)]

\* A blocking test that excludes a score equal to the threshold.
IsBlocking_strict(match_score) ==
  /\ RGeq(match_score, Hundredths(similarity_threshold))
  /\ match_score # Hundredths(similarity_threshold)

IsBlocking(match_score) == RGeq(match_score, Hundredths(similarity_threshold))

IsFlagging(match_score) ==
  RGeq(match_score, Hundredths(low_confidence_threshold))

\* check_quality is pure: its values on the submissions of the model are
\* tabulated once.
QualityOf == [bug_data \in Tabulated |-> check_quality(bug_data)]

\* Steps 2 and 3 of process_incoming_bug, given what find_similar_bugs returned.
Decide(bug_data, similar_bugs) ==
  LET trace == Calls("process", bug_data,
                     <<MatchingTextOf[bug_data]>>, 1, similar_bugs)
  IN  IF similar_bugs # <<>> /\ IsBlocking(similar_bugs[1].hybrid_score)
      THEN _handle_duplicate(bug_data, similar_bugs[1], TRUE, trace)
      ELSE IF similar_bugs # <<>> /\ IsFlagging(similar_bugs[1].hybrid_score)
      THEN _handle_duplicate(bug_data, similar_bugs[1], FALSE, trace)
      ELSE _create_new_bug(bug_data, trace)

process_incoming_bug(bug_data) ==
  LET quality == QualityOf[bug_data]
  IN  IF ~quality.is_valid
      THEN _handle_low_quality(bug_data, quality.issues)
      ELSE \E similar_bugs \in
                {find_similar_bugs(bug_data, low_confidence_threshold, TopK,
                                   bugs, index, bug_ids)} :
             Decide(bug_data, similar_bugs)

(***************************************************************************)
(* QA endpoints (app/api/qa_interface.py).                                 *)
(***************************************************************************)
\* The response of a QA endpoint that returns no new row.
Respond(op, status) ==
  /\ result' = Result(op, status, "", NoId, NoId, NoScore, NoId, <<>>)
  /\ calls' = Calls(op, <<>>, <<>>, 0, <<>>)

\* An early return: a 4xx response and nothing written.
Refuse(op, status) ==
  /\ Respond(op, status)
  /\ UNCHANGED <<bugs, duplicate_history, low_quality_queue, audit_log,
                 index, bug_ids>>

\* approve_low_quality past its two early returns: the Bug, its embedding and
\* index entry, the item's update and the audit row, committed together.
approve_item(item_id) ==
       LET item == low_quality_queue[item_id]
           bug == [id |-> Len(bugs) + 1,
                   title |-> item.title, description |-> item.description,
                   repro_steps |-> item.repro_steps, logs |-> item.logs,
                   severity |-> None, device |-> item.device,
                   os_version |-> None, build_version |-> item.build_version,
                   region |-> item.region, status |-> "New",
                   parent_bug_id |-> NoId, match_score |-> NoScore,
                   classification_tag |-> NoTag, embedding |-> NoEmbedding]
           text == get_text_for_embedding(bug)
           embedding == generate_embedding(text)
           store == add_vectors(index, bug_ids, embedding, bug.id)
       IN  /\ Len(bugs) < MaxBugs
           /\ bugs' = Append(bugs, [bug EXCEPT !.embedding = embedding])
           /\ index' = store.index
           /\ bug_ids' = store.bug_ids
           /\ low_quality_queue' =
                [low_quality_queue EXCEPT ![item_id].status = "Approved",
                                          ![item_id].created_bug_id = bug.id]
           /\ audit_log' = Append(audit_log,
                                  Audit("qa_override", bug.id, NoId, item_id))
           /\ UNCHANGED duplicate_history
           /\ result' = Result("approve", 201, "", bug.id, NoId, NoScore,
                               item_id, <<>>)
           /\ calls' = Calls("approve", <<>>, <<text>>, 0, <<>>)

approve_low_quality(item_id) ==
  IF item_id \notin 1..Len(low_quality_queue)
  THEN Refuse("approve", 404)
  ELSE IF low_quality_queue[item_id].status # "Pending"
  THEN Refuse("approve", 400)
  ELSE approve_item(item_id)

\* reject_low_quality past its two early returns.
reject_item(item_id) ==
  /\ low_quality_queue' =
       [low_quality_queue EXCEPT ![item_id].status = "Rejected"]
  /\ audit_log' = Append(audit_log,
                         Audit("qa_override", NoId, NoId, item_id))
  /\ UNCHANGED <<bugs, duplicate_history, index, bug_ids>>
  /\ Respond("reject", 200)

reject_low_quality(item_id) ==
  IF item_id \notin 1..Len(low_quality_queue)
  THEN Refuse("reject", 404)
  ELSE IF low_quality_queue[item_id].status # "Pending"
  THEN Refuse("reject", 400)
  ELSE reject_item(item_id)

\* A promotion that leaves match_score on the row.
promote_keeping_score(bug_id) ==
  IF bug_id \notin 1..Len(bugs)
  THEN Refuse("promote", 404)
  ELSE IF bugs[bug_id].parent_bug_id = NoId
  THEN Refuse("promote", 400)
  ELSE /\ bugs' = [bugs EXCEPT ![bug_id].parent_bug_id = NoId,
                               ![bug_id].classification_tag = NoTag]
       /\ audit_log' = Append(audit_log,
                              Audit("bug_promoted", bug_id, NoId, NoId))
       /\ UNCHANGED <<duplicate_history, low_quality_queue, index, bug_ids>>
       /\ Respond("promote", 200)

promote_duplicate(bug_id) ==
  IF bug_id \notin 1..Len(bugs)
  THEN Refuse("promote", 404)
  ELSE IF bugs[bug_id].parent_bug_id = NoId
  THEN Refuse("promote", 400)
  ELSE /\ bugs' = [bugs EXCEPT ![bug_id].parent_bug_id = NoId,
                               ![bug_id].classification_tag = NoTag,
                               ![bug_id].match_score = NoScore]
       /\ audit_log' = Append(audit_log,
                              Audit("bug_promoted", bug_id, NoId, NoId))
       /\ UNCHANGED <<duplicate_history, low_quality_queue, index, bug_ids>>
       /\ Respond("promote", 200)

\* parent_bug_id is data.get("parent_bug_id"); the test
\* `if parent_bug_id := ...` fails for the values Python takes as false: an
\* absent or null parent and the number 0, which are NoId here.
reclassify_bug(bug_id, parent_bug_id, classification_tag) ==
      IF bug_id \notin 1..Len(bugs)
      THEN Refuse("reclassify", 404)
      ELSE IF parent_bug_id # NoId /\ parent_bug_id \notin 1..Len(bugs)
      THEN Refuse("reclassify", 404)
      ELSE IF parent_bug_id # NoId /\ parent_bug_id = bug_id
      THEN Refuse("reclassify", 400)
      ELSE /\ bugs' = [bugs EXCEPT
                         ![bug_id].parent_bug_id = parent_bug_id,
                         ![bug_id].classification_tag = classification_tag]
           /\ audit_log' = Append(audit_log,
                                  Audit("classification_changed", bug_id,
                                        parent_bug_id, NoId))
           /\ UNCHANGED <<duplicate_history, low_quality_queue, index, bug_ids>>
           /\ Respond("reclassify", 200)

\* The ids a request may name: every existing row and one id past them.
BugIdInputs == 1..(Len(bugs) + 1)

ItemIdInputs == 1..(Len(low_quality_queue) + 1)

\* The model serves requests until the audit log holds MaxEvents events.
Serving == Len(audit_log) < MaxEvents

Process ==
  \E bug_data \in Submissions :
    Serving /\ process_incoming_bug(bug_data) /\ UNCHANGED store_vars

ApproveLowQuality ==
  \E item_id \in ItemIdInputs : Serving /\ approve_low_quality(item_id) /\ UNCHANGED store_vars

RejectLowQuality ==
  \E item_id \in ItemIdInputs : Serving /\ reject_low_quality(item_id) /\ UNCHANGED store_vars

PromoteDuplicate ==
  \E bug_id \in BugIdInputs : Serving /\ promote_duplicate(bug_id) /\ UNCHANGED store_vars

ReclassifyBug ==
  \E bug_id \in BugIdInputs, parent_bug_id \in {NoId} \cup BugIdInputs,
     classification_tag \in {NoTag, "Duplicate"} :
    Serving /\ reclassify_bug(bug_id, parent_bug_id, classification_tag) /\ UNCHANGED store_vars

Next ==
  \/ Process
  \/ ApproveLowQuality
  \/ RejectLowQuality
  \/ PromoteDuplicate
  \/ ReclassifyBug

Spec == Init /\ [][Next]_vars

(***************************************************************************)
(* Ingestion alone, for properties of a parent that collects duplicates.   *)
(***************************************************************************)
MaxIngest == 4

Ingest ==
  \E bug_data \in Submissions :
    /\ Len(audit_log) < MaxIngest
    /\ process_incoming_bug(bug_data)
    /\ UNCHANGED store_vars

SpecIngest == Init /\ [][Ingest]_vars

(***************************************************************************)
(* The VectorStore under the threads of one process, statement by          *)
(* statement: _create_new_bug and search on the request threads,           *)
(* rebuild_vector_index and save_index on the task thread, and a restart   *)
(* of the process, which loads the snapshot files.  No statement of        *)
(* vector_store.py takes a lock.                                           *)
(***************************************************************************)
MaxSaves == 2

\* The submissions and query vectors of this part: one per embedding.
StoreSubmissions == {SubA, SubE}

Queries == {"va", "vc"}

\* faiss.write_index / faiss.read_index of a flat index: the row count and
\* the rows.
write_index(idx) == [ntotal |-> Len(idx), xb |-> idx]

\* A reader that drops the last row.
read_index_short(data) == SubSeq(data.xb, 1, data.ntotal - 1)

read_index(data) == SubSeq(data.xb, 1, data.ntotal)

Exists(file) == file.gen # 0

\* save_index, first statement: the index file is overwritten in place.
write_index_file(files, idx) ==
  [files EXCEPT !.index_file = [gen |-> files.saves + 1,
                                data |-> write_index(idx)],
                !.saves = files.saves + 1]

\* save_index, second statement: the mapping file is overwritten in place.
write_mapping_file(files, ids) ==
  [files EXCEPT !.mapping_file = [gen |-> files.saves, data |-> ids]]

\* VectorStore.save_index run to its end without interference.
save_index(files, idx, ids) ==
  write_mapping_file(write_index_file(files, idx), ids)

\* The call the thread is in leaves the Bug row it flushed uncommitted.
InFlight(t) == threads[t].op = "create" /\ threads[t].pc # "idle"

Committed(bug_id) ==
  bug_id \in 1..Len(bugs) /\ \A t \in Threads : ~(InFlight(t) /\ threads[t].ids = <<bug_id>>)

\* Bug.query.filter(Bug.embedding.isnot(None)).all(), as ids in id order.
RECURSIVE WithEmbedding(_)
WithEmbedding(n) ==
  IF n = 0 THEN <<>>
  ELSE WithEmbedding(n - 1) \o
       (IF Committed(n) /\ bugs[n].embedding # NoEmbedding THEN <<n>> ELSE <<>>)

\* The embedding _create_new_bug stores for each submission of this part.
EmbeddingOf ==
  [bug_data \in StoreSubmissions |->
     generate_embedding(get_text_for_embedding(_create_bug_from_data(bug_data, 0)))]

Goto(t, pc) == threads' = [threads EXCEPT ![t].pc = pc]

\* The call returns: the thread keeps nothing of it.
Return(t) == threads' = [threads EXCEPT ![t] = IdleThread]

\* _create_new_bug up to the call of add_vectors: the row is flushed and
\* carries its embedding.
CreateBegin(t, bug_data) ==
  LET bug == _create_bug_from_data(bug_data, Len(bugs) + 1)
      embedding == EmbeddingOf[bug_data]
  IN  /\ running /\ threads[t].pc = "idle"
      /\ Len(bugs) < MaxBugs
      /\ bugs' = Append(bugs, [bug EXCEPT !.embedding = embedding])
      /\ threads' = [threads EXCEPT ![t] =
                       [IdleThread EXCEPT !.pc = "add_index", !.op = "create",
                                          !.vectors = <<embedding>>,
                                          !.ids = <<bug.id>>]]
      /\ UNCHANGED <<index, bug_ids, disk, running, audit_log>>

\* add_vectors: self.index.add(normalized_embeddings)
AddIndex(t) ==
  /\ running /\ threads[t].pc = "add_index"
  /\ index' = index \o [i \in 1..Len(threads[t].vectors) |->
                          _normalize_vectors(threads[t].vectors[i])]
  /\ Goto(t, "add_ids")
  /\ UNCHANGED <<bugs, bug_ids, disk, running, audit_log>>

\* add_vectors: self.bug_ids.extend(bug_ids)
AddIds(t) ==
  /\ running /\ threads[t].pc = "add_ids"
  /\ bug_ids' = bug_ids \o threads[t].ids
  /\ Goto(t, IF threads[t].op = "create" THEN "commit" ELSE "save_index")
  /\ UNCHANGED <<bugs, index, disk, running, audit_log>>

\* _create_new_bug: the audit row and db.session.commit()
Commit(t) ==
  /\ running /\ threads[t].pc = "commit"
  /\ audit_log' = Append(audit_log,
                         Audit("bug_created", threads[t].ids[1], NoId, NoId))
  /\ Return(t)
  /\ UNCHANGED <<bugs, index, bug_ids, disk, running>>

\* search: the test of ntotal and the choice of search_k.
SearchBegin(t, q) ==
  /\ running /\ threads[t].pc = "idle"
  /\ threads' = [threads EXCEPT ![t] =
       [IdleThread EXCEPT
          !.op = "search",
          !.pc = IF Len(index) = 0 THEN "searched" ELSE "search_index",
          !.query = _normalize_vectors(q),
          !.search_k = Min(2 * TopK + 1, Len(index)),
          !.overlap = /\ threads[Task].op = "rebuild"
                      /\ threads[Task].pc \in {"reset_ids", "add_index", "add_ids"}
                      /\ threads[Task].old_total > 0]]
  /\ UNCHANGED <<bugs, index, bug_ids, disk, running, audit_log>>

\* search: self.index.search(normalized_query, search_k)
SearchIndex(t) ==
  /\ running /\ threads[t].pc = "search_index"
  /\ threads' = [threads EXCEPT
                   ![t].found = IndexSearch(index, threads[t].query,
                                            threads[t].search_k),
                   ![t].pc = "search_map"]
  /\ UNCHANGED <<bugs, index, bug_ids, disk, running, audit_log>>

\* search: the loop over the hits, through self.bug_ids, and results[:k]
SearchMap(t) ==
  /\ running /\ threads[t].pc = "search_map"
  /\ threads' = [threads EXCEPT
                   ![t].results = Take(SelectSeq2(threads[t].found, bug_ids),
                                       2 * TopK),
                   ![t].found = <<>>,
                   ![t].pc = "searched"]
  /\ UNCHANGED <<bugs, index, bug_ids, disk, running, audit_log>>

\* search returns its results to the caller.
SearchReturn(t) ==
  /\ running /\ threads[t].pc = "searched"
  /\ Return(t)
  /\ UNCHANGED <<bugs, index, bug_ids, disk, running, audit_log>>

\* rebuild_vector_index: the query for the Bugs with embeddings; the task
\* returns when there is none.
RebuildBegin ==
  LET ids == WithEmbedding(Len(bugs))
  IN  /\ running /\ threads[Task].pc = "idle"
      /\ disk.saves < MaxSaves
      /\ threads' = [threads EXCEPT ![Task] =
           [IdleThread EXCEPT
              !.op = "rebuild",
              !.pc = IF ids = <<>> THEN "saved" ELSE "reset_index",
              !.vectors = [i \in 1..Len(ids) |-> bugs[ids[i]].embedding],
              !.ids = ids]]
      /\ UNCHANGED <<bugs, index, bug_ids, disk, running, audit_log>>

\* rebuild_index: self.index = faiss.IndexFlatIP(self.dimension)
ResetIndex ==
  /\ running /\ threads[Task].pc = "reset_index"
  /\ index' = <<>>
  /\ threads' = [threads EXCEPT ![Task].pc = "reset_ids",
                                ![Task].old_total = Len(index)]
  /\ UNCHANGED <<bugs, bug_ids, disk, running, audit_log>>

\* rebuild_index: self.bug_ids = []
ResetIds ==
  /\ running /\ threads[Task].pc = "reset_ids"
  /\ bug_ids' = <<>>
  /\ Goto(Task, "add_index")
  /\ UNCHANGED <<bugs, index, disk, running, audit_log>>

\* A direct call of save_index, as scripts/init_db.py makes after adding.
SaveBegin ==
  /\ running /\ threads[Task].pc = "idle"
  /\ disk.saves < MaxSaves
  /\ threads' = [threads EXCEPT ![Task] =
                   [IdleThread EXCEPT !.op = "save", !.pc = "save_index"]]
  /\ UNCHANGED <<bugs, index, bug_ids, disk, running, audit_log>>

\* save_index: faiss.write_index(self.index, path + ".index")
SaveIndexFile ==
  /\ running /\ threads[Task].pc = "save_index"
  /\ disk' = write_index_file(disk, index)
  /\ Goto(Task, "save_mapping")
  /\ UNCHANGED <<bugs, index, bug_ids, running, audit_log>>

\* save_index: pickle.dump(self.bug_ids, f) into path + ".mapping"
SaveMapping ==
  /\ running /\ threads[Task].pc = "save_mapping"
  /\ disk' = write_mapping_file(disk, bug_ids)
  /\ Goto(Task, "saved")
  /\ UNCHANGED <<bugs, index, bug_ids, running, audit_log>>

\* rebuild_vector_index or save_index returns.
TaskReturn ==
  /\ running /\ threads[Task].pc = "saved"
  /\ Return(Task)
  /\ UNCHANGED <<bugs, index, bug_ids, disk, running, audit_log>>

\* load_index: both files are read; a missing mapping file raises, the
\* handler calls _initialize_index, which finds the index file and calls
\* load_index again, each call inside the handler of the one before, until
\* the interpreter gives up the recursion: the constructor returns no
\* store (loaded is FALSE).
load_index(files) ==
  IF Exists(files.mapping_file)
  THEN [index |-> read_index(files.index_file.data),
        bug_ids |-> files.mapping_file.data, loaded |-> TRUE]
  ELSE [index |-> <<>>, bug_ids |-> <<>>, loaded |-> FALSE]

\* VectorStore.__init__ -> _initialize_index
_initialize_index(files) ==
  IF Exists(files.index_file)
  THEN load_index(files)
  ELSE [index |-> <<>>, bug_ids |-> <<>>, loaded |-> TRUE]

\* The process is killed and started again; the model restarts it only
\* while no ingestion transaction is open.
Restart ==
  LET store == _initialize_index(disk)
  IN  /\ \A t \in Threads : ~InFlight(t)
      /\ index' = store.index
      /\ bug_ids' = store.bug_ids
      /\ running' = store.loaded
      /\ threads' = [t \in Threads |-> IdleThread]
      /\ UNCHANGED <<bugs, disk, audit_log>>

\* The tables and the records of the request handlers are not touched by
\* these steps.
Elsewhere ==
  UNCHANGED <<duplicate_history, low_quality_queue, result, calls, http,
              breaker>>

Create ==
  \E t \in Workers, bug_data \in StoreSubmissions :
    CreateBegin(t, bug_data) /\ Elsewhere

Add == \E t \in Threads : (AddIndex(t) \/ AddIds(t)) /\ Elsewhere

CommitBug == \E t \in Workers : Commit(t) /\ Elsewhere

SearchCall == \E t \in Searchers, q \in Queries : SearchBegin(t, q) /\ Elsewhere

Search ==
  \E t \in Searchers :
    (SearchIndex(t) \/ SearchMap(t) \/ SearchReturn(t)) /\ Elsewhere

Rebuild == (RebuildBegin \/ ResetIndex \/ ResetIds) /\ Elsewhere

Save == (SaveBegin \/ SaveIndexFile \/ SaveMapping \/ TaskReturn) /\ Elsewhere

Reboot == Restart /\ Elsewhere

StoreNext ==
  \/ Create
  \/ Add
  \/ CommitBug
  \/ SearchCall
  \/ Search
  \/ Rebuild
  \/ Save
  \/ Reboot

SpecStore == Init /\ [][StoreNext]_vars

\* The same calls made one after the other: at most one thread is inside a
\* call.
Busy == {t \in Threads : threads[t].pc # "idle"}

Serial ==
  /\ Cardinality(Busy) <= 1
  /\ Cardinality({t \in Threads : threads'[t].pc # "idle"}) <= 1

SerialNext ==
  \/ Create /\ Serial
  \/ Add /\ Serial
  \/ CommitBug /\ Serial
  \/ SearchCall /\ Serial
  \/ Search /\ Serial
  \/ Rebuild /\ Serial
  \/ Save /\ Serial
  \/ Reboot /\ Serial

SpecSnapshot == Init /\ [][SerialNext]_vars

(***************************************************************************)
(* Triage: ingestion next to the QA overrides that retire a Bug (a status  *)
(* transition to Resolved or Closed) and that tag it Recurring.            *)
(***************************************************************************)
Statuses == {"New", "Resolved", "Closed"}

\* A QA override of a Bug's status: the row changes, nothing else does.
set_status(bug_id, status) ==
  /\ bugs' = [bugs EXCEPT ![bug_id].status = status]
  /\ UNCHANGED <<duplicate_history, low_quality_queue, audit_log,
                 index, bug_ids>>
  /\ Respond("set_status", 200)

SetStatus ==
  \E bug_id \in 1..Len(bugs), status \in Statuses :
    Serving /\ set_status(bug_id, status) /\ UNCHANGED store_vars

\* reclassify_bug with the body {"classification_tag": "Recurring"}.
MarkRecurring ==
  \E bug_id \in BugIdInputs :
    Serving /\ reclassify_bug(bug_id, NoId, "Recurring") /\ UNCHANGED store_vars

TriageNext ==
  \/ Process
  \/ SetStatus
  \/ MarkRecurring

SpecTriage == Init /\ [][TriageNext]_vars

(***************************************************************************)
(* Reviews of the low-quality queue on two request threads.  A request     *)
(* reads the item in its own session and tests its status; its writes are  *)
(* committed later, by primary key, whatever the row has become since:     *)
(* qa_interface.py takes no row lock and tests no version.                 *)
(***************************************************************************)
Reviews == {"approve", "reject"}

\* LowQualityQueue.query.get(item_id) and the two early returns.
ReviewBegin(t, op, item_id) ==
  /\ threads[t].pc = "idle"
  /\ IF low_quality_queue[item_id].status # "Pending"
     THEN Refuse(op, 400) /\ UNCHANGED threads
     ELSE /\ threads' = [threads EXCEPT ![t] =
                           [IdleThread EXCEPT !.pc = "review", !.op = op,
                                              !.ids = <<item_id>>]]
          /\ UNCHANGED <<bugs, duplicate_history, low_quality_queue,
                         audit_log, index, bug_ids, result, calls>>

\* The rest of the handler, up to db.session.commit().
ReviewCommit(t) ==
  /\ threads[t].pc = "review"
  /\ IF threads[t].op = "approve"
     THEN approve_item(threads[t].ids[1])
     ELSE reject_item(threads[t].ids[1])
  /\ threads' = [threads EXCEPT ![t] = IdleThread]

ReviewCall ==
  \E t \in Workers, op \in Reviews, item_id \in 1..Len(low_quality_queue) :
    Serving /\ ReviewBegin(t, op, item_id) /\ UNCHANGED <<disk, running, http, breaker>>

ReviewWrite ==
  \E t \in Workers : ReviewCommit(t) /\ UNCHANGED <<disk, running, http, breaker>>

ReviewNext ==
  \/ Process
  \/ ReviewCall
  \/ ReviewWrite

SpecReview == Init /\ [][ReviewNext]_vars

(***************************************************************************)
(* The HTTP layer (app/api/bugs.py) behind the rate_limit wrapper          *)
(* (app/middleware/rate_limit.py).  The wrapper calls the handler inside   *)
(* its try block, with or without Redis, and its except clause calls the   *)
(* handler again; what the second call raises goes to the error handlers   *)
(* of app/middleware/logging.py.                                           *)
(***************************************************************************)
Handlers == {"create_bug", "get_bug"}

\* The status the error handlers give an exception raised by a view.
ErrorStatus(exception) ==
  CASE exception = "ResourceNotFoundError" -> 404
    [] exception = "DuplicateResourceError" -> 409
    [] OTHER -> 500

\* create_bug after the detector has returned: `result` is the detector's
\* return value, a tuple (bug, action, metadata).  The view reads it as a
\* dict, result.get("bug") first, which a tuple does not have.
create_bug_response(kind, action) ==
  IF kind # "dict"
  THEN [raised |-> TRUE, status |-> ErrorStatus("AttributeError")]
  ELSE IF action = "blocked_duplicate"
  THEN [raised |-> TRUE, status |-> ErrorStatus("DuplicateResourceError")]
  ELSE IF action = "low_quality"
  THEN [raised |-> FALSE, status |-> 400]
  ELSE [raised |-> FALSE, status |-> 201]

\* get_bug: Bug.query.get(bug_id), ResourceNotFoundError when there is none.
get_bug_response(bug_id) ==
  IF bug_id \in 1..Len(bugs)
  THEN [raised |-> FALSE, status |-> 200]
  ELSE [raised |-> TRUE, status |-> ErrorStatus("ResourceNotFoundError")]

\* What one call of the handler leaves in the wrapper: a returned response
\* ends the request, an exception in the try block leads to the except
\* clause, an exception there propagates to the error handlers.
AfterRun(response) ==
  http' = [http EXCEPT !.runs = @ + 1,
                       !.pc = IF response.raised /\ http.pc = "try"
                              THEN "except" ELSE "done",
                       !.status = IF response.raised /\ http.pc = "try"
                                  THEN 0 ELSE response.status]

\* decorated_function up to the call of the handler: 429 when the limiter
\* reports the client as limited.
ApiRequest ==
  \E handler \in Handlers, data \in Bodies, bug_id \in BugIdInputs,
     is_limited \in BOOLEAN :
    /\ Serving
    /\ http.pc \in {"idle", "done"}
    /\ http' = [NoRequest EXCEPT
                  !.pc = IF is_limited THEN "done" ELSE "try",
                  !.status = IF is_limited THEN 429 ELSE 0,
                  !.handler = handler,
                  !.data = IF handler = "create_bug" THEN data ELSE <<>>,
                  !.bug_id = IF handler = "get_bug" THEN bug_id ELSE NoId]
    /\ UNCHANGED <<bugs, duplicate_history, low_quality_queue, audit_log,
                   index, bug_ids, result, calls, disk, threads, running,
                 breaker>>

\* f(*args, **kwargs) for create_bug: the detector runs and commits, then the
\* view reads its return value.
RunCreateBug ==
  /\ http.pc \in {"try", "except"}
  /\ http.handler = "create_bug"
  /\ process_incoming_bug(ApiBugData(http.data))
  /\ AfterRun(create_bug_response("tuple", result'.action))
  /\ UNCHANGED <<disk, threads, running, breaker>>

\* f(*args, **kwargs) for get_bug.
RunGetBug ==
  /\ http.pc \in {"try", "except"}
  /\ http.handler = "get_bug"
  /\ AfterRun(get_bug_response(http.bug_id))
  /\ UNCHANGED <<bugs, duplicate_history, low_quality_queue, audit_log,
                 index, bug_ids, result, calls, disk, threads, running,
                 breaker>>

ApiNext ==
  \/ ApiRequest
  \/ RunCreateBug
  \/ RunGetBug
  \/ Process

SpecApi == Init /\ [][ApiNext]_vars

(***************************************************************************)
(* scripts/init_db.py: the seeding script, a process of its own with its   *)
(* own VectorStore over the same snapshot files and the same database.     *)
(***************************************************************************)
\* The record of sample_bugs; every field the matcher compares is set.
sample_bugs == <<SubA>>

\* create_sample_data on the store the script's create_app has built: the
\* sample rows are committed with their embeddings, then every Bug of the
\* table is added to the store and the store is saved.
create_sample_data(store) ==
  LET bug == _create_bug_from_data(sample_bugs[1], Len(bugs) + 1)
      text == get_text_for_embedding(bug)
      rows == Append(bugs, [bug EXCEPT !.embedding = generate_embedding(text)])
      embeddings == [i \in 1..Len(rows) |-> _normalize_vectors(rows[i].embedding)]
      ids == [i \in 1..Len(rows) |-> rows[i].id]
  IN  /\ bugs' = rows
      /\ disk' = save_index(disk, store.index \o embeddings, store.bug_ids \o ids)

\* init_db: create_app (which constructs the VectorStore), create_all,
\* create_sample_data.  The web process is not touched.
init_db ==
  LET store == _initialize_index(disk)
  IN  /\ store.loaded
      /\ Len(bugs) < MaxBugs /\ disk.saves < MaxSaves
      /\ \A i \in 1..Len(bugs) : bugs[i].embedding # NoEmbedding
      /\ create_sample_data(store)
      /\ UNCHANGED <<index, bug_ids, threads, running, audit_log>>
      /\ Elsewhere

\* The script is run, the web process is started again and serves
\* submissions.
SeedNext ==
  \/ init_db
  \/ Reboot
  \/ Process

SpecSeed == Init /\ [][SeedNext]_vars

(***************************************************************************)
(* VectorStore.remove_vector, called on the store of the web process       *)
(* between two submissions.                                                *)
(***************************************************************************)
\* list.remove: the first occurrence is dropped and what follows moves up.
RECURSIVE ListRemove(_, _)
ListRemove(s, x) ==
  IF s = <<>> THEN <<>>
  ELSE IF Head(s) = x THEN Tail(s) ELSE <<Head(s)>> \o ListRemove(Tail(s), x)

\* remove_vector: the new bug_ids; self.index is not touched.
remove_vector(ids, bug_id) ==
  IF bug_id \in Range(ids) THEN ListRemove(ids, bug_id) ELSE ids

RemoveVector ==
  \E bug_id \in BugIdInputs :
    /\ bug_ids' = remove_vector(bug_ids, bug_id)
    /\ UNCHANGED <<bugs, duplicate_history, low_quality_queue, audit_log,
                   index, result, calls>>
    /\ UNCHANGED store_vars

RemoveNext ==
  \/ Process
  \/ RemoveVector

SpecRemove == Init /\ [][RemoveNext]_vars

(***************************************************************************)
(* CircuitBreaker (app/utils/circuit_breaker.py): one breaker, the calls   *)
(* made through it one after the other, and the clock.                     *)
(***************************************************************************)
MaxThreshold == 2

MaxTimeout == 2

MaxTime == 4

\* How the wrapped function ends: it returns, raises expected_exception, or
\* raises an exception of another type.
FuncOutcomes == {"return", "expected_exception", "other_exception"}

\* CircuitBreaker.__init__
CircuitBreaker(failure_threshold, recovery_timeout) ==
  [NoBreaker EXCEPT !.state = "closed",
                    !.failure_threshold = failure_threshold,
                    !.recovery_timeout = recovery_timeout,
                    !.clock = breaker.clock]

\* A test that waits for more than recovery_timeout.
_should_attempt_reset_strict(b) ==
  /\ b.last_failure_time # <<>>
  /\ b.clock - b.last_failure_time[1] > b.recovery_timeout

_should_attempt_reset(b) ==
  /\ b.last_failure_time # <<>>
  /\ b.clock - b.last_failure_time[1] >= b.recovery_timeout

_on_success(b) ==
  [b EXCEPT !.state = IF @ = "half_open" THEN "closed" ELSE @,
            !.failure_count = 0]

_on_failure(b) ==
  [b EXCEPT !.failure_count = @ + 1,
            !.last_failure_time = <<b.clock>>,
            !.state = IF b.failure_count + 1 >= b.failure_threshold
                      THEN "open" ELSE @]

\* CircuitBreaker.call with a function that ends as outcome says.
call(b, outcome) ==
  IF b.state = "open" /\ ~_should_attempt_reset(b)
  THEN [b EXCEPT !.last = Called(FALSE, "open", "none",
                                 "CircuitBreakerOpenError")]
  ELSE LET entered == IF b.state = "open"
                      THEN [b EXCEPT !.state = "half_open"] ELSE b
           after == CASE outcome = "return" -> _on_success(entered)
                      [] outcome = "expected_exception" -> _on_failure(entered)
                      [] OTHER -> entered
       IN  [after EXCEPT !.last = Called(TRUE, entered.state, outcome,
                                         IF outcome = "return" THEN "none"
                                         ELSE outcome)]

\* CircuitBreaker.reset
reset(b) == [b EXCEPT !.failure_count = 0, !.state = "closed"]

\* Nothing but the breaker changes.
BreakerOnly ==
  UNCHANGED <<bugs, duplicate_history, low_quality_queue, audit_log, index,
              bug_ids, result, calls, disk, threads, running, http>>

Construct ==
  \E failure_threshold \in 1..MaxThreshold, recovery_timeout \in 1..MaxTimeout :
    /\ breaker.state = "none"
    /\ breaker' = CircuitBreaker(failure_threshold, recovery_timeout)
    /\ BreakerOnly

BreakerCallWith(outcome) ==
  /\ breaker.state # "none"
  /\ breaker' = call(breaker, outcome)
  /\ BreakerOnly

BreakerCall == \E outcome \in FuncOutcomes : BreakerCallWith(outcome)

BreakerReset ==
  /\ breaker.state # "none"
  /\ breaker' = reset(breaker)
  /\ BreakerOnly

\* A second passes.
Tick ==
  /\ breaker.clock < MaxTime
  /\ breaker' = [breaker EXCEPT !.clock = @ + 1]
  /\ BreakerOnly

BreakerNext ==
  \/ Construct
  \/ BreakerCall
  \/ BreakerReset
  \/ Tick

SpecBreaker == Init /\ [][BreakerNext]_vars

(***************************************************************************)
(* Vocabulary of the properties.                                           *)
(***************************************************************************)
\* The issues check_quality finds in each submission of the model.
IssuesOf == [bug_data \in Tabulated |-> QualityIssues(bug_data)]

\* The step just taken is a call of process_incoming_bug.
ProcessStep == calls'.op = "process" /\ audit_log' # audit_log

\* The last handler call was process_incoming_bug on a submission that
\* passes the quality gate.
ProcessedValid == calls.op = "process" /\ IssuesOf[calls.request] = <<>>

\* The best hybrid score among the candidates find_similar_bugs returned.
BestScore(similar) ==
  LET best == CHOOSE c \in Range(similar) :
                \A o \in Range(similar) : RGeq(c.hybrid_score, o.hybrid_score)
  IN  best.hybrid_score

RLess(a, b) == ~RGeq(a, b)

High == Rat(similarity_threshold, 100)

Low == Rat(low_confidence_threshold, 100)

Extends(new, old) ==
  Len(new) = Len(old) + 1 /\ SubSeq(new, 1, Len(old)) = old

\* C1: for a submission that passes the quality gate, the best hybrid score s
\* among the returned candidates decides the outcome: s >= high_threshold is
\* blocked_duplicate, low_threshold <= s < high_threshold is
\* flagged_for_review, s < low_threshold or no candidate is created.
C1_ThresholdMapping ==
  ProcessedValid =>
    IF calls.similar = <<>>
    THEN result.action = "created"
    ELSE LET s == BestScore(calls.similar)
         IN  /\ RGeq(s, High) => result.action = "blocked_duplicate"
             /\ RGeq(s, Low) /\ RLess(s, High)
                  => result.action = "flagged_for_review"
             /\ RLess(s, Low) => result.action = "created"

\* One submission was blocked at exactly high_threshold and the last one was
\* flagged at exactly low_threshold.
C1_Witness ==
  /\ ProcessedValid
  /\ calls.similar # <<>>
  /\ BestScore(calls.similar) = Low
  /\ result.action = "flagged_for_review"
  /\ \E i \in 1..Len(duplicate_history) :
       duplicate_history[i].was_blocked /\ duplicate_history[i].match_score = High

\* C2: a blocked_duplicate outcome leaves the Bug rows and the vector index
\* as they were and adds exactly one DuplicateHistory row: was_blocked, no
\* candidate id, the best candidate's bug as parent, the submission as snapshot.
C2_BlockedWritesHistoryOnly ==
  [][ProcessStep /\ result'.action = "blocked_duplicate" =>
       /\ bugs' = bugs
       /\ index' = index
       /\ bug_ids' = bug_ids
       /\ Extends(duplicate_history', duplicate_history)
       /\ LET h == duplicate_history'[Len(duplicate_history')]
          IN  /\ h.was_blocked
              /\ h.duplicate_bug_id = NoId
              /\ h.submission_data = calls'.request
              /\ \E c \in Range(calls'.similar) :
                   /\ c.hybrid_score = BestScore(calls'.similar)
                   /\ c.bug_id = h.parent_bug_id
                   /\ h.parent_bug_id \in 1..Len(bugs)]_vars

\* The last call was blocked and its history row is the newest one.
C2_Witness ==
  /\ calls.op = "process"
  /\ result.action = "blocked_duplicate"
  /\ bugs # <<>>
  /\ duplicate_history # <<>>
  /\ duplicate_history[Len(duplicate_history)].was_blocked
  /\ duplicate_history[Len(duplicate_history)].submission_data = calls.request

\* C3: a flagged_for_review outcome adds exactly one Bug, whose parent is the
\* best candidate's bug, tagged Duplicate with that candidate's hybrid score,
\* and in the same step one DuplicateHistory row naming the new Bug as
\* candidate and the parent as original, not blocked.
C3_FlaggedCreatesDuplicate ==
  [][ProcessStep /\ result'.action = "flagged_for_review" =>
       /\ Extends(bugs', bugs)
       /\ Extends(duplicate_history', duplicate_history)
       /\ LET bug == bugs'[Len(bugs')]
              h == duplicate_history'[Len(duplicate_history')]
          IN  /\ bug.id = Len(bugs')
              /\ bug.classification_tag = "Duplicate"
              /\ bug.match_score = BestScore(calls'.similar)
              /\ \E c \in Range(calls'.similar) :
                   /\ c.hybrid_score = BestScore(calls'.similar)
                   /\ c.bug_id = bug.parent_bug_id
              /\ bug.parent_bug_id \in 1..Len(bugs)
              /\ h.duplicate_bug_id = bug.id
              /\ h.parent_bug_id = bug.parent_bug_id
              /\ ~h.was_blocked]_vars

\* The last call was flagged: the newest Bug is a duplicate of the returned
\* candidate and the newest history row names both.
C3_Witness ==
  /\ calls.op = "process"
  /\ result.action = "flagged_for_review"
  /\ calls.similar # <<>>
  /\ Len(bugs) = 2
  /\ bugs[2].parent_bug_id = calls.similar[1].bug_id
  /\ duplicate_history # <<>>
  /\ duplicate_history[Len(duplicate_history)].duplicate_bug_id = 2

\* C4: a flagged_for_review Bug has a stored embedding and its id is in the
\* vector index's id mapping.
C4_FlaggedIsIndexed ==
  (calls.op = "process" /\ result.action = "flagged_for_review") =>
    /\ bugs[result.bug_id].embedding # NoEmbedding
    /\ result.bug_id \in Range(bug_ids)

C6_SingleEmbeddingCall ==
  ProcessedValid => Len(calls.embed) = 1

\* The duplicates attributed to bug P: Bugs whose parent is P plus blocked
\* history rows whose parent is P.
DuplicateCount(P) ==
  Cardinality({i \in 1..Len(bugs) : bugs[i].parent_bug_id = P})
  + Cardinality({i \in 1..Len(duplicate_history) :
                   /\ duplicate_history[i].was_blocked
                   /\ duplicate_history[i].parent_bug_id = P})

\* C7: after a flagged or blocked outcome whose parent is P, if P has three
\* or more duplicates (Bugs with parent P plus blocked history rows of P)
\* then P is classified Recurring.
C7_RecurrenceTracked ==
  (calls.op = "process"
     /\ result.action \in {"flagged_for_review", "blocked_duplicate"}
     /\ DuplicateCount(result.parent_bug_id) >= 3)
    => bugs[result.parent_bug_id].classification_tag = "Recurring"

\* The process is up and no thread is inside a call.
Quiescent == running /\ \A t \in Threads : threads[t].pc = "idle"

\* The ids of the Bugs that carry an embedding.
Embedded == {b \in 1..Len(bugs) : bugs[b].embedding # NoEmbedding}

C12_RebuildKeepsConcurrentAdds ==
  (threads[Task].op = "rebuild" /\ threads[Task].pc = "saved") =>
    \A b \in Embedded : Committed(b) => b \in Range(bug_ids)

\* C13: after a restart that loads the store, the ids of the index mapping
\* are exactly the committed Bugs that carry an embedding.
C13_IndexMatchesDatabaseAfterRestart ==
  [][(Restart /\ running') => Range(bug_ids') = Embedded]_vars

\* C14: once every add call has returned, the mapping has as many entries as
\* the index has vectors and position i of the mapping holds the id supplied
\* with the vector at position i.
C14_AddsSerialized ==
  (Quiescent /\ disk.saves = 0) =>
    /\ Len(bug_ids) = Len(index)
    /\ \A i \in 1..Len(bug_ids) :
         /\ bug_ids[i] \in 1..Len(bugs)
         /\ index[i] = _normalize_vectors(bugs[bug_ids[i]].embedding)

C16_SnapshotFilesAgree ==
  threads[Task].pc # "save_mapping" =>
    disk.index_file.gen = disk.mapping_file.gen

\* A Bug that is Resolved or Closed and not tagged Recurring.
Retired(bug) ==
  bug.status \in {"Resolved", "Closed"} /\ bug.classification_tag # "Recurring"

\* C17: find_similar_bugs returns no candidate whose Bug is Resolved or
\* Closed unless that Bug is Recurring, and a flagged or blocked outcome never
\* names such a Bug as the parent.
C17_RetiredNeverMatched ==
  [][ProcessStep =>
       /\ \A c \in Range(calls'.similar) :
            c.bug_id \in 1..Len(bugs) /\ ~Retired(bugs[c.bug_id])
       /\ result'.action \in {"flagged_for_review", "blocked_duplicate"} =>
            /\ result'.parent_bug_id \in 1..Len(bugs)
            /\ ~Retired(bugs[result'.parent_bug_id])]_vars

\* Bug 1 was retired and is still in the index; the same submission came
\* again and was created as Bug 2.
C17_Witness ==
  /\ calls.op = "process"
  /\ result.action = "created"
  /\ result.bug_id = 2
  /\ Retired(bugs[1])
  /\ 1 \in Range(bug_ids)
  /\ bugs[2] = [bugs[1] EXCEPT !.id = 2, !.status = "New"]

\* Bug b is the row a created outcome wrote for the submission: the fields of
\* the submission, no parent, and the embedding stored at insert; its status
\* and its tag are what QA has made of them since.
CreatedFrom(b, bug_data) ==
  /\ b \in 1..Len(bugs)
  /\ bugs[b].embedding # NoEmbedding
  /\ bugs[b] = [_create_bug_from_data(bug_data, b)
                 EXCEPT !.embedding = bugs[b].embedding,
                        !.status = bugs[b].status,
                        !.classification_tag = bugs[b].classification_tag]

\* C18: a submission identical to one that ended as created, whose Bug is
\* neither Resolved nor Closed, ends as blocked_duplicate with a hybrid score
\* of at least high_threshold: the query text is the text embedded at insert,
\* no Bug row is added, and one blocked history row names a Bug created from
\* that submission.
C18_ResubmitIsBlocked ==
  [][ProcessStep =>
       \A b \in 1..Len(bugs) :
         (CreatedFrom(b, calls'.request)
            /\ bugs[b].status \notin {"Resolved", "Closed"}) =>
           /\ calls'.embed # <<>>
           /\ calls'.embed[1] = get_text_for_embedding(bugs[b])
           /\ result'.action = "blocked_duplicate"
           /\ RGeq(result'.match_score, High)
           /\ bugs' = bugs
           /\ Extends(duplicate_history', duplicate_history)
           /\ duplicate_history'[Len(duplicate_history')].was_blocked
           /\ CreatedFrom(duplicate_history'[Len(duplicate_history')].parent_bug_id,
                          calls'.request)]_vars

\* The submission that created Bug 1 came again and was blocked against it
\* with score 1.
C18_Witness ==
  /\ calls.op = "process"
  /\ result.action = "blocked_duplicate"
  /\ result.parent_bug_id = 1
  /\ result.match_score = Rat(1, 1)
  /\ CreatedFrom(1, calls.request)
  /\ bugs[1].status = "New"
  /\ Len(bugs) = 1
  /\ Len(duplicate_history) = 1

\* C19: promote on a Bug with a parent clears its parent, classification and
\* score, appends one bug_promoted event and changes no other Bug; on a Bug
\* without parent it answers 400 and on an unknown id 404, and then the Bugs
\* and the audit log stay as they were.
C19_PromoteClearsDuplicate ==
  [][\A bug_id \in BugIdInputs :
       promote_duplicate(bug_id) =>
         IF bug_id \notin 1..Len(bugs)
         THEN result'.status = 404 /\ bugs' = bugs /\ audit_log' = audit_log
         ELSE IF bugs[bug_id].parent_bug_id = NoId
         THEN result'.status = 400 /\ bugs' = bugs /\ audit_log' = audit_log
         ELSE /\ result'.status = 200
              /\ Len(bugs') = Len(bugs)
              /\ \A b \in 1..Len(bugs) : b # bug_id => bugs'[b] = bugs[b]
              /\ bugs'[bug_id] = [bugs[bug_id] EXCEPT !.parent_bug_id = NoId,
                                                      !.classification_tag = NoTag,
                                                      !.match_score = NoScore]
              /\ Extends(audit_log', audit_log)
              /\ audit_log'[Len(audit_log')].event_type = "bug_promoted"
              /\ audit_log'[Len(audit_log')].bug_id = bug_id]_vars

\* A flagged duplicate was promoted: Bug 2 has lost its parent, tag and score
\* and the newest audit event is its promotion.
C19_Witness ==
  /\ calls.op = "promote"
  /\ result.status = 200
  /\ Len(bugs) = 2
  /\ bugs[2].parent_bug_id = NoId
  /\ bugs[2].classification_tag = NoTag
  /\ bugs[2].match_score = NoScore
  /\ duplicate_history # <<>>
  /\ duplicate_history[1].duplicate_bug_id = 2
  /\ audit_log[Len(audit_log)].event_type = "bug_promoted"
  /\ audit_log[Len(audit_log)].bug_id = 2

\* C20: reclassify of an existing Bug sets its parent only to the id of an
\* existing Bug other than itself, with one classification_changed event; a
\* request whose parent is no existing Bug or is the subject is refused (404,
\* 400) and leaves the Bugs and the audit log as they were.
C20_ReclassifyValidatesParent ==
  [][\A bug_id \in 1..Len(bugs), parent_bug_id \in 0..(Len(bugs) + 1),
        classification_tag \in {NoTag, "Duplicate"} :
       reclassify_bug(bug_id, parent_bug_id, classification_tag) =>
         IF parent_bug_id \in 1..Len(bugs) /\ parent_bug_id # bug_id
         THEN /\ result'.status = 200
              /\ bugs' = [bugs EXCEPT
                            ![bug_id].parent_bug_id = parent_bug_id,
                            ![bug_id].classification_tag = classification_tag]
              /\ Extends(audit_log', audit_log)
              /\ audit_log'[Len(audit_log')].event_type = "classification_changed"
         ELSE /\ result'.status = IF parent_bug_id = bug_id THEN 400 ELSE 404
              /\ bugs' = bugs
              /\ audit_log' = audit_log]_vars

\* Bug b reaches a Bug without parent in at most n steps along parent_bug_id.
RECURSIVE ReachesRoot(_, _)
ReachesRoot(b, n) ==
  IF bugs[b].parent_bug_id = NoId THEN TRUE
  ELSE IF n = 0 \/ bugs[b].parent_bug_id \notin 1..Len(bugs) THEN FALSE
  ELSE ReachesRoot(bugs[b].parent_bug_id, n - 1)

\* C8: the duplicate-of relation is a forest: no Bug is its own parent and
\* following parent_bug_id from any Bug ends at a Bug without parent.
C8_DuplicateOfIsForest ==
  \A b \in 1..Len(bugs) :
    bugs[b].parent_bug_id # b /\ ReachesRoot(b, Len(bugs))

\* C9: every Bug with a parent has a DuplicateHistory row naming it as the
\* candidate.
C9_DuplicateHasHistory ==
  \A b \in 1..Len(bugs) :
    bugs[b].parent_bug_id # NoId =>
      \E i \in 1..Len(duplicate_history) :
        duplicate_history[i].duplicate_bug_id = b

\* C10: a Bug has a similarity score exactly when it has a parent.
C10_ScoreIffParent ==
  \A b \in 1..Len(bugs) :
    (bugs[b].match_score # NoScore) <=> (bugs[b].parent_bug_id # NoId)

\* The tables a refused request leaves alone.
tables == <<bugs, duplicate_history, low_quality_queue, audit_log, index, bug_ids>>

\* A Bug was created from queue item i: an approval event names both.
BugCreatedFrom(i) ==
  \E e \in 1..Len(audit_log) :
    /\ audit_log[e].event_type = "qa_override"
    /\ audit_log[e].low_quality_id = i
    /\ audit_log[e].bug_id # NoId

\* C21: a queue item changes status only from Pending to Approved or to
\* Rejected; approve or reject on an item that is not Pending answers 400 and
\* writes nothing; a Rejected item has no created_bug_id and no Bug created
\* from it; an Approved item's created_bug_id is an existing Bug.
C21_QueueItemLifecycle ==
  [][/\ \A i \in 1..Len(low_quality_queue) :
          /\ low_quality_queue'[i].status # low_quality_queue[i].status =>
               /\ low_quality_queue[i].status = "Pending"
               /\ low_quality_queue'[i].status \in {"Approved", "Rejected"}
          /\ low_quality_queue'[i].status = "Rejected" =>
               /\ low_quality_queue'[i].created_bug_id = NoId
               /\ ~BugCreatedFrom(i)'
          /\ low_quality_queue'[i].status = "Approved" =>
               low_quality_queue'[i].created_bug_id \in 1..Len(bugs')
          /\ low_quality_queue[i].status # "Pending" =>
               /\ approve_low_quality(i) =>
                    result'.status = 400 /\ UNCHANGED tables
               /\ reject_low_quality(i) =>
                    result'.status = 400 /\ UNCHANGED tables
     /\ Len(low_quality_queue') >= Len(low_quality_queue)]_vars

\* The reviews of item i that took effect: its qa_override events.
ReviewsOf(i) ==
  {e \in 1..Len(audit_log) :
     audit_log[e].event_type = "qa_override" /\ audit_log[e].low_quality_id = i}

\* C29: whatever the interleaving of the reviews of one item, one review at
\* most takes effect: at most one Bug and one index entry come from the item,
\* and a Rejected item has no Bug.
C29_ReviewedAtMostOnce ==
  \A i \in 1..Len(low_quality_queue) :
    /\ Cardinality(ReviewsOf(i)) <= 1
    /\ Cardinality({e \in ReviewsOf(i) : audit_log[e].bug_id # NoId}) <= 1
    /\ low_quality_queue[i].status = "Rejected" => ~BugCreatedFrom(i)

\* The audit event type of each outcome of process_incoming_bug.
EventOf(action) ==
  CASE action = "created" -> "bug_created"
    [] action = "flagged_for_review" -> "duplicate_detected"
    [] action = "blocked_duplicate" -> "duplicate_blocked"
    [] action = "low_quality" -> "low_quality_flagged"

\* C22: no step changes or removes an audit event, and none removes a Bug
\* or a DuplicateHistory row; a call of process_incoming_bug appends exactly
\* one audit event, of the type of its outcome, in the step that writes the
\* outcome's other rows.
C22_AuditAppendOnly ==
  [][/\ Len(audit_log') >= Len(audit_log)
     /\ SubSeq(audit_log', 1, Len(audit_log)) = audit_log
     /\ Len(bugs') >= Len(bugs)
     /\ \A b \in 1..Len(bugs) : bugs'[b].id = bugs[b].id
     /\ Len(duplicate_history') >= Len(duplicate_history)
     /\ \A h \in 1..Len(duplicate_history) :
          duplicate_history'[h].id = duplicate_history[h].id
     /\ (calls'.op = "process" /\ process_incoming_bug(calls'.request)) =>
            /\ Extends(audit_log', audit_log)
            /\ audit_log'[Len(audit_log')].event_type = EventOf(result'.action)
            /\ result'.action \in {"created", "flagged_for_review"} =>
                 /\ Extends(bugs', bugs)
                 /\ audit_log'[Len(audit_log')].bug_id = Len(bugs')
            /\ result'.action \in {"flagged_for_review", "blocked_duplicate"} =>
                 Extends(duplicate_history', duplicate_history)
            /\ result'.action = "low_quality" =>
                 Extends(low_quality_queue', low_quality_queue)]_vars

\* Three calls with three outcomes have left their three events, in order.
C22_Witness ==
  /\ calls.op = "process"
  /\ result.action = "blocked_duplicate"
  /\ Len(audit_log) = 3
  /\ audit_log[1].event_type = "low_quality_flagged"
  /\ audit_log[2].event_type = "bug_created"
  /\ audit_log[3].event_type = "duplicate_blocked"

\* The stop-set of titles the specification lists.
StopSet ==
  { <<"b","u","g">>, <<"e","r","r","o","r">>, <<"i","s","s","u","e">>,
    <<"p","r","o","b","l","e","m">>, <<"h","e","l","p">>, <<"t","e","s","t">>,
    <<"b","r","o","k","e","n">>,
    <<"n","o","t"," ","w","o","r","k","i","n","g">>,
    <<"d","o","e","s","n","'","t"," ","w","o","r","k">>,
    <<"c","r","a","s","h">>, <<"c","r","a","s","h","e","s">> }

\* C23: a submission whose title is, in any letter case, one of the stop-set
\* entries is reported with the issue generic_title; the submission
\* {title: "bug", description: "it broke"} is reported with generic_title and
\* description_too_short.
C23_GenericTitleReported ==
  (calls.op = "process" /\ Lower(Strip(GetOrEmpty(calls.request.title))) \in StopSet) =>
    /\ result.action = "low_quality"
    /\ "generic_title" \in Range(result.issues)
    /\ calls.request = SubLow => "description_too_short" \in Range(result.issues)

\* C24: when POST /api/bugs/ has answered, the status is the one of the
\* detector's outcome: 201 for created and flagged_for_review, 400 for
\* low_quality, 409 for blocked_duplicate, and never 500.
C24_OutcomeToHttpStatus ==
  (http.pc = "done" /\ http.handler = "create_bug" /\ http.runs > 0) =>
    /\ http.status # 500
    /\ http.status = CASE result.action = "blocked_duplicate" -> 409
                        [] result.action = "low_quality" -> 400
                        [] OTHER -> 201

\* C30: when a request has been answered, the wrapper has called its handler
\* at most once, whether the handler returned or raised.
C30_HandlerRunsOnce ==
  http.pc = "done" => http.runs <= 1

\* C25: the list find_similar_bugs returns holds each Bug id at most once,
\* also when the mapping of the vector index holds an id at two positions.
C25_SimilarIdsDistinct ==
  calls.op = "process" =>
    \A i, j \in 1..Len(calls.similar) :
      calls.similar[i].bug_id = calls.similar[j].bug_id => i = j

\* C26: removing an id from the store reassigns no position: the mapping has
\* as many entries as the index has vectors, and every position still pairs
\* a vector with the Bug it was added for, so that a search reports no
\* vector's score under another Bug's id.
C26_RemoveKeepsPositions ==
  /\ Len(bug_ids) = Len(index)
  /\ \A p \in 1..Len(bug_ids) :
       /\ bug_ids[p] \in 1..Len(bugs)
       /\ index[p] = _normalize_vectors(bugs[bug_ids[p]].embedding)

\* recovery_timeout has elapsed since the last failure.
TimedOut(b) ==
  /\ b.last_failure_time # <<>>
  /\ b.clock >= b.last_failure_time[1] + b.recovery_timeout

\* What a call that invokes the function in mode `state` must leave.
AfterInvoked(b, n, state, outcome) ==
  /\ n.last.invoked /\ n.last.ran_in = state
  /\ outcome = "return" => (n.state = "closed" /\ n.failure_count = 0)
  /\ outcome = "expected_exception" =>
       /\ n.failure_count = b.failure_count + 1
       /\ n.state = IF state = "half_open" \/ n.failure_count >= b.failure_threshold
                    THEN "open" ELSE "closed"
  /\ (outcome = "other_exception" /\ state = "closed") =>
       (n.state = "closed" /\ n.failure_count = b.failure_count)

\* C27: the breaker is CLOSED only with fewer failures in a row than
\* failure_threshold, and a failure that brings the count to the threshold
\* opens it while a success sets the count to 0.  While OPEN and before
\* recovery_timeout has elapsed since the last failure a call raises
\* CircuitBreakerOpenError and does not invoke the function; after the
\* timeout the call runs the function in HALF_OPEN, where a success closes
\* the breaker with count 0 and a failure opens it again.
C27_BreakerTransitions ==
  [][\A outcome \in FuncOutcomes :
       BreakerCallWith(outcome) =>
         /\ breaker'.state = "closed" =>
              breaker'.failure_count < breaker.failure_threshold
         /\ CASE breaker.state = "open" /\ ~TimedOut(breaker) ->
                   /\ ~breaker'.last.invoked
                   /\ breaker'.last.raised = "CircuitBreakerOpenError"
                   /\ breaker'.state = "open"
                   /\ breaker'.failure_count = breaker.failure_count
              [] breaker.state = "open" /\ TimedOut(breaker) ->
                   AfterInvoked(breaker, breaker', "half_open", outcome)
              [] OTHER ->
                   AfterInvoked(breaker, breaker', breaker.state, outcome)]_vars

\* A breaker that opened, waited out the timeout and closed again on the
\* success of its trial call.
C27_Witness ==
  /\ breaker.state = "closed"
  /\ breaker.last.ran_in = "half_open"
  /\ breaker.last.outcome = "return"

\* C28: starting the process always ends with a usable store; when the
\* index file exists and the mapping file cannot be read, the store is left
\* with an empty index and an empty mapping.
C28_InitializeTerminates ==
  [][Restart =>
       /\ running'
       /\ (Exists(disk.index_file) /\ ~Exists(disk.mapping_file)) =>
            (index' = <<>> /\ bug_ids' = <<>>)]_vars

====
